---- MODULE Spec2Model ----
(***************************************************************************)
(* Model of the Smart Transport Optimizer API: the FastAPI endpoints of    *)
(* app/main.py and the three services they are wired to                    *)
(* (GoogleMapsService, DensityAnalyzer, RouteOptimizer).                   *)
(*                                                                         *)
(* The program keeps no state between requests, so a state of the model is *)
(* the last request handled: the request, what the provider answered (or   *)
(* would answer), every gateway invocation the handler made, the outcome   *)
(* of each service function on the way, and the HTTP response.             *)
(*                                                                         *)
(* Conventions                                                             *)
(*  - coordinates are fixed-point, in thousandths of a degree;             *)
(*  - scores are fixed-point, in hundredths of a point (round(x, 2));      *)
(*  - a Python call is an outcome record [exc, val, calls]: exc is "none"  *)
(*    for a return and the exception class for a raise, calls the gateway  *)
(*    invocations made, in order.                                          *)
(***************************************************************************)
EXTENDS Integers, Sequences, FiniteSets, TLC

VARIABLES
    endpoint,   \* the endpoint of the last request ("none" before the first)
    request,    \* its body or query parameters
    provider,   \* the provider's answers to the requests of this handler
    calls,      \* the gateway invocations made while handling it, in order
    out,        \* outcome of each service function the handler called
    status,     \* HTTP status of the response (0 before the first request)
    body        \* JSON body of a 200 response, as a record

vars == <<endpoint, request, provider, calls, out, status, body>>

----------------------------------------------------------------------------
(* Bounds of the model *)

\* longest route list the provider returns
MaxRoutes == 2

\* longest result list the provider returns to a station search
MaxStations == 2

\* most dense blocks in the provider's data
MaxHot == 11

\* longest list of scored routes given to compare_routes
MaxScored == 3

\* longest list of waypoints given to analyze_route_corridor
MaxWaypoints == 2

----------------------------------------------------------------------------
(* Outcomes of Python calls                                                *)
(*                                                                         *)
(* Every service function takes cs, the gateway invocations made so far    *)
(* while handling the request, and yields an outcome whose calls extend    *)
(* cs by the invocations it made itself.                                   *)

Return(v, cs) == [exc |-> "none", val |-> v, calls |-> cs]

Raise(e, cs) == [exc |-> e, val |-> <<>>, calls |-> cs]

\* the outcome of a function that was not called
NotCalled == [exc |-> "not_called", val |-> <<>>, calls |-> <<>>]

\* x = f(...) followed by Rest(x): an exception raised by f propagates
Try(o, Rest(_)) == IF o.exc = "none" THEN Rest(o) ELSE o

\* One invocation of a gateway operation: the outbound HTTP requests it sent,
\* whether the provider answered with success and the expected list, and
\* whether the operation raised.
GatewayCall(op, sent, providerOk, raised) ==
    [op |-> op, sent |-> sent, providerOk |-> providerOk, raised |-> raised]

\* the gateway raises ValueError with the provider payload in its message
UpstreamError == "ValueError"

----------------------------------------------------------------------------
(* Request models of app/main.py (pydantic) *)

\* a JSON location object, or its absence
MissingLocation == [present |-> FALSE, latitude |-> 0, longitude |-> 0]

GivenLocation(lat, lng) == [present |-> TRUE, latitude |-> lat, longitude |-> lng]

\* latitude: Field(..., ge=-90, le=90); longitude: Field(..., ge=-180, le=180)
ValidLocation(l) ==
    /\ l.present
    /\ l.latitude >= -90000 /\ l.latitude <= 90000
    /\ l.longitude >= -180000 /\ l.longitude <= 180000

\* RouteRequest: origin and destination are required Locations
ValidRouteRequest(r) == ValidLocation(r.origin) /\ ValidLocation(r.destination)

to_tuple(l) == <<l.latitude, l.longitude>>

----------------------------------------------------------------------------
(* The provider (the external mapping service) *)

Latitudes == {-90001, -90000, 33972, 90001}
Longitudes == {-6850, 180000, 180001}

LocationInputs ==
    {MissingLocation} \cup {GivenLocation(la, lo) : la \in Latitudes, lo \in Longitudes}

Durations == {600, 2400, 7200}

\* one route of a computeRoutes answer (TRANSIT): summary and legs[0].duration
ProviderRoutes == [summary : {"L1", "T2"}, seconds : Durations]

SeqsUpTo(S, n) == UNION {[1..k -> S] : k \in 0..n}

\* status: the HTTP status; hasRoutes: whether the JSON carries "routes"
TransitAnswers ==
    {[status |-> s, hasRoutes |-> TRUE, routes |-> rs] :
        s \in {200, 403}, rs \in SeqsUpTo(ProviderRoutes, MaxRoutes)}
    \cup {[status |-> s, hasRoutes |-> FALSE, routes |-> <<>>] : s \in {200, 403}}

\* legs[0] of a computeRoutes answer (DRIVE): duration and durationWithTraffic
\* (withTraffic = -1: the provider omitted it)
ProviderLegs == [seconds : {0, 1000}, withTraffic : {-1, 1050, 1150, 1400, 2000}]

TrafficAnswers ==
    {[status |-> s, hasRoutes |-> TRUE, routes |-> rs] :
        s \in {200, 500}, rs \in SeqsUpTo(ProviderLegs, 1)}
    \cup {[status |-> s, hasRoutes |-> FALSE, routes |-> <<>>] : s \in {200, 500}}

NoAnswer == [status |-> 0, hasRoutes |-> FALSE, routes |-> <<>>]

\* one result of a nearby search; vicinity and rating are optional
ProviderPlaces ==
    {[name |-> "Gare", hasVicinity |-> TRUE, vicinity |-> "Av. Hassan II",
      hasRating |-> TRUE, rating |-> 4],
     [name |-> "Arret", hasVicinity |-> FALSE, vicinity |-> "",
      hasRating |-> FALSE, rating |-> 0]}

\* status: the HTTP status; hasResults: whether the JSON carries "results"
PlaceAnswers ==
    {[status |-> s, hasResults |-> TRUE, results |-> rs] :
        s \in {200, 500}, rs \in SeqsUpTo(ProviderPlaces, MaxStations)}
    \cup {[status |-> s, hasResults |-> FALSE, results |-> <<>>] : s \in {200, 500}}

\* the answers to the three searches of a connectivity score, all successful
ConnectivityAnswers ==
    [t \in 1..3 |->
        [status |-> 200, hasResults |-> TRUE,
         results |-> [k \in 1..(3 - t) |->
                         [name |-> "Gare", hasVicinity |-> TRUE,
                          vicinity |-> "Av. Hassan II",
                          hasRating |-> TRUE, rating |-> 4]]]]

\* The POI data of the provider (see PoiTotal); failAt = n makes the n-th
\* places lookup of the handler fail, failAt = 0 none.
NoField ==
    [origin |-> <<0, 0>>, pitch |-> 1, width |-> 1, hot |-> 0,
     hi |-> 0, spread |-> 1, lo |-> 0, failAt |-> 0]

\* around the centers of the density endpoint: the block at the center is
\* dense or not
DensityFields ==
    {[origin |-> <<33900, -6900>>, pitch |-> 200, width |-> 1, hot |-> k,
      hi |-> h, spread |-> 1, lo |-> 0, failAt |-> f] :
        k \in {0, 1}, h \in {2, 7, 60}, f \in {0, 1, 9}}

\* over the area of the suggest endpoint: blocks as large as the cells of an
\* 8 x 8 grid over SuggestArea, in sixteenths of a coordinate unit
SuggestFields ==
    {[origin |-> <<528000, -112000>>, pitch |-> 320, width |-> 8, hot |-> k,
      hi |-> 7, spread |-> sp, lo |-> l, failAt |-> f] :
        k \in 0..MaxHot, sp \in {1, 4}, l \in {0, 6}, f \in {0, 14}}

NoProvider ==
    [transit |-> NoAnswer, traffic |-> NoAnswer, places |-> <<>>, poi |-> NoField]

----------------------------------------------------------------------------
(* GoogleMapsService *)

\* _classify_traffic with the thresholds compared by <=
classify_traffic_inclusive(num, den) ==
    IF 10 * num <= 11 * den THEN "low"
    ELSE IF 10 * num <= 13 * den THEN "moderate"
    ELSE IF 10 * num <= 16 * den THEN "heavy"
    ELSE "severe"

\* _classify_traffic(traffic_factor), the factor being the rational num/den
classify_traffic(num, den) ==
    IF 10 * num < 11 * den THEN "low"
    ELSE IF 10 * num < 13 * den THEN "moderate"
    ELSE IF 10 * num < 16 * den THEN "heavy"
    ELSE "severe"

\* the report get_traffic_conditions builds from legs[0] of the first route;
\* traffic_factor is the rational num / den, 1.0 when the duration is 0
TrafficReport(leg) ==
    LET duration == leg.seconds
        duration_in_traffic ==
            IF leg.withTraffic = -1 THEN duration ELSE leg.withTraffic
        num == IF duration > 0 THEN duration_in_traffic ELSE 1
        den == IF duration > 0 THEN duration ELSE 1
    IN  [duration_seconds |-> duration,
         duration_with_traffic_seconds |-> duration_in_traffic,
         traffic_factor |-> [num |-> num, den |-> den],
         traffic_level |-> classify_traffic(num, den)]

\* get_traffic_conditions with a second attempt after a provider failure
get_traffic_conditions_retry(a, cs) ==
    IF a.status # 200 \/ ~a.hasRoutes
    THEN Raise(UpstreamError,
               Append(cs, GatewayCall("get_traffic_conditions", 2, FALSE, TRUE)))
    ELSE IF Len(a.routes) = 0
    THEN Raise("IndexError",
               Append(cs, GatewayCall("get_traffic_conditions", 1, FALSE, TRUE)))
    ELSE Return(TrafficReport(a.routes[1]),
                Append(cs, GatewayCall("get_traffic_conditions", 1, TRUE, FALSE)))

\* get_traffic_conditions(origin, destination) against the provider answer a
get_traffic_conditions(a, cs) ==
    IF a.status # 200 \/ ~a.hasRoutes
    THEN Raise(UpstreamError,
               Append(cs, GatewayCall("get_traffic_conditions", 1, FALSE, TRUE)))
    ELSE IF Len(a.routes) = 0
    THEN \* data["routes"][0] on an empty list
         Raise("IndexError",
               Append(cs, GatewayCall("get_traffic_conditions", 1, FALSE, TRUE)))
    ELSE Return(TrafficReport(a.routes[1]),
                Append(cs, GatewayCall("get_traffic_conditions", 1, TRUE, FALSE)))

\* number of positional parameters of get_traffic_conditions after self
TrafficParams == 2

\* a call of get_traffic_conditions with nargs arguments: Python raises
\* TypeError before the body runs when there are too many
call_get_traffic_conditions(nargs, a, cs) ==
    IF nargs > TrafficParams THEN Raise("TypeError", cs)
    ELSE get_traffic_conditions(a, cs)

\* get_directions_transit: the status is not looked at and a payload without
\* "routes" reads as an empty list (data.get("routes", []))
get_directions_transit(a, cs) ==
    LET routes == IF a.hasRoutes THEN a.routes ELSE <<>>
    IN  Return([i \in 1..Len(routes) |->
                   [summary |-> routes[i].summary,
                    total_duration_seconds |-> routes[i].seconds,
                    steps |-> <<>>]],
               Append(cs, GatewayCall("get_directions_transit", 1,
                                      a.status = 200 /\ a.hasRoutes, FALSE)))

\* keyword names get_nearby_transit_stations binds, and the ones its callers pass
StationParams == {"location", "radius", "station_type"}

EndpointStationKwargs == {"location", "radius", "transit_type"}

ConnectivityStationKwargs == {"radius", "transit_type"}

\* get_nearby_transit_stations against the provider answer a: one normalized
\* station per result (vicinity defaults to "", rating to 0)
get_nearby_transit_stations(a, cs) ==
    IF a.status # 200 \/ ~a.hasResults
    THEN Raise(UpstreamError,
               Append(cs, GatewayCall("get_nearby_transit_stations", 1, FALSE, TRUE)))
    ELSE Return([i \in 1..Len(a.results) |->
                    [name |-> a.results[i].name,
                     address |-> IF a.results[i].hasVicinity
                                 THEN a.results[i].vicinity ELSE "",
                     rating |-> IF a.results[i].hasRating
                                THEN a.results[i].rating ELSE 0]],
                Append(cs, GatewayCall("get_nearby_transit_stations", 1, TRUE, FALSE)))

\* a call with the keyword arguments kwargs: Python raises TypeError before
\* the body runs when a keyword is not a parameter
call_get_nearby_transit_stations(kwargs, a, cs) ==
    IF ~(kwargs \subseteq StationParams) THEN Raise("TypeError", cs)
    ELSE get_nearby_transit_stations(a, cs)

----------------------------------------------------------------------------
(* Arithmetic on exact rationals (the code computes in binary floating     *)
(* point; the model computes the same expressions exactly)                 *)

Min(a, b) == IF a < b THEN a ELSE b

Max(a, b) == IF a > b THEN a ELSE b

\* int(n / d) for d > 0: truncation toward zero
Trunc(n, d) == IF n >= 0 THEN n \div d ELSE -((-n) \div d)

\* round(n / d) to the nearest integer, ties to even, for d > 0
RoundHalfEven(n, d) ==
    LET q == n \div d
        r == n - q * d
    IN  IF 2 * r < d THEN q
        ELSE IF 2 * r > d THEN q + 1
        ELSE IF q % 2 = 0 THEN q ELSE q + 1

RECURSIVE SumSeq(_)
SumSeq(s) == IF Len(s) = 0 THEN 0 ELSE Head(s) + SumSeq(Tail(s))

RECURSIVE MaxSeq(_)
MaxSeq(xs) == IF Len(xs) = 1 THEN xs[1] ELSE Max(Head(xs), MaxSeq(Tail(xs)))

RECURSIVE MinSeq(_)
MinSeq(xs) == IF Len(xs) = 1 THEN xs[1] ELSE Min(Head(xs), MinSeq(Tail(xs)))

\* population variance of the samples xs is VarNum(xs) / Len(xs)^2
VarNum(xs) ==
    Len(xs) * SumSeq([i \in 1..Len(xs) |-> xs[i] * xs[i]]) - SumSeq(xs) * SumSeq(xs)

\* list.sort(key=..., reverse=True) on the keys of a list: the order in which
\* the sorted list holds the positions of the original one. The sort is
\* stable: a position goes after every one already placed whose key is not
\* smaller.
RECURSIVE InsertDesc(_, _, _)
InsertDesc(keys, order, i) ==
    IF Len(order) = 0 THEN <<i>>
    ELSE IF keys[Head(order)] >= keys[i]
         THEN <<Head(order)>> \o InsertDesc(keys, Tail(order), i)
         ELSE <<i>> \o order

RECURSIVE SortOrderDesc(_, _)
SortOrderDesc(keys, n) ==
    IF n = 0 THEN <<>> ELSE InsertDesc(keys, SortOrderDesc(keys, n - 1), n)

Permute(items, order) == [k \in 1..Len(items) |-> items[order[k]]]

SortDesc(items, keys) == Permute(items, SortOrderDesc(keys, Len(items)))

----------------------------------------------------------------------------
(* The places lookup of DensityAnalyzer                                    *)
(*                                                                         *)
(* calculate_area_density reads maps_service.client.places_nearby(...),    *)
(* which no source file defines (GoogleMapsService sets only api_key).     *)
(* It is modelled from the specification's getNearbyPOIs: one request for  *)
(* one category, answering a count or failing with the upstream error.     *)

PoiTypes == <<"school", "hospital", "shopping_mall", "restaurant", "cafe",
              "store", "university", "bank", "gym">>

\* POIs around a center in the provider's data. The field is a city of
\* square blocks of side pitch, width blocks to a row, counted row by row from
\* its origin: the first hot blocks are dense (their count varies from block
\* to block), the rest of the map holds lo POIs around any point.
PoiTotal(field, center) ==
    LET row == (center[1] - field.origin[1]) \div field.pitch
        col == (center[2] - field.origin[2]) \div field.pitch
    IN  IF /\ row >= 0 /\ col >= 0 /\ col < field.width
           /\ row * field.width + col < field.hot
        THEN field.hi + ((row + col) % field.spread)
        ELSE field.lo

\* the count for the t-th category: the total split over the nine categories
PoiCount(total, t) ==
    (total \div Len(PoiTypes)) + (IF t <= (total % Len(PoiTypes)) THEN 1 ELSE 0)

\* getNearbyPOIs; the field's failAt-th lookup of the handler fails
getNearbyPOIs(field, center, t, cs) ==
    IF field.failAt = Len(cs) + 1
    THEN Raise(UpstreamError, Append(cs, GatewayCall("places_nearby", 1, FALSE, TRUE)))
    ELSE Return(PoiCount(PoiTotal(field, center), t),
                Append(cs, GatewayCall("places_nearby", 1, TRUE, FALSE)))

----------------------------------------------------------------------------
(* DensityAnalyzer *)

\* _classify_density(score), the score being the rational num/den, den > 0
classify_density(num, den) ==
    IF num < 20 * den THEN "very_low"
    ELSE IF num < 40 * den THEN "low"
    ELSE IF num < 60 * den THEN "moderate"
    ELSE IF num < 80 * den THEN "high"
    ELSE "very_high"

\* the loop over poi_types from the t-th category on, total_pois so far
RECURSIVE PoiLoop(_, _, _, _, _)
PoiLoop(field, center, t, total_pois, cs) ==
    IF t > Len(PoiTypes) THEN Return(total_pois, cs)
    ELSE Try(getNearbyPOIs(field, center, t, cs),
             LAMBDA pois : PoiLoop(field, center, t + 1, total_pois + pois.val,
                                   pois.calls))

\* the result of calculate_area_density with the factor 1000 for 10000
DensityResult_factor_1000(total_pois, radius) ==
    LET num == IF radius > 0 THEN total_pois * 1000 ELSE -(total_pois * 1000)
        den == IF radius > 0 THEN radius ELSE -radius
    IN  IF num >= 100 * den
        THEN [density_score |-> 10000, total_pois |-> total_pois,
              density_level |-> classify_density(100, 1)]
        ELSE [density_score |-> RoundHalfEven(100 * num, den),
              total_pois |-> total_pois,
              density_level |-> classify_density(num, den)]

\* the result of calculate_area_density for radius # 0: density_score is
\* round(min(100, total_pois / radius * 10000), 2), density_level classifies
\* the score before rounding
DensityResult(total_pois, radius) ==
    LET \* total_pois / radius * 10000 as num / den with den > 0
        num == IF radius > 0 THEN total_pois * 10000 ELSE -(total_pois * 10000)
        den == IF radius > 0 THEN radius ELSE -radius
    IN  IF num >= 100 * den
        THEN [density_score |-> 10000, total_pois |-> total_pois,
              density_level |-> classify_density(100, 1)]
        ELSE [density_score |-> RoundHalfEven(100 * num, den),
              total_pois |-> total_pois,
              density_level |-> classify_density(num, den)]

\* calculate_area_density(center, radius)
calculate_area_density(field, center, radius, cs) ==
    Try(PoiLoop(field, center, 1, 0, cs),
        LAMBDA counted :
            IF radius = 0 THEN Raise("ZeroDivisionError", counted.calls)
            ELSE Return(DensityResult(counted.val, radius), counted.calls))

\* the loop of analyze_route_corridor over the waypoints from the w-th on
RECURSIVE CorridorLoop(_, _, _, _, _, _)
CorridorLoop(field, waypoints, corridor_width, w, densities, cs) ==
    IF w > Len(waypoints) THEN Return(densities, cs)
    ELSE Try(calculate_area_density(field, waypoints[w], corridor_width, cs),
             LAMBDA density :
                 CorridorLoop(field, waypoints, corridor_width, w + 1,
                              Append(densities, density.val.density_score),
                              density.calls))

\* the result of analyze_route_corridor for at least one sample
CorridorResult(densities) ==
    [average_density |-> RoundHalfEven(SumSeq(densities), Len(densities)),
     max_density |-> MaxSeq(densities),
     min_density |-> MinSeq(densities),
     density_variance |->
        RoundHalfEven(VarNum(densities), 100 * Len(densities) * Len(densities)),
     density_samples |-> densities,
     uniformity |->
        IF VarNum(densities) < 100 * 10000 * Len(densities) * Len(densities)
        THEN "uniform" ELSE "variable"]

\* analyze_route_corridor(waypoints, corridor_width): np.mean of no sample is
\* nan (a warning), np.max of no sample raises ValueError
analyze_route_corridor(field, waypoints, corridor_width, cs) ==
    Try(CorridorLoop(field, waypoints, corridor_width, 1, <<>>, cs),
        LAMBDA sampled :
            IF Len(sampled.val) = 0 THEN Raise("ValueError", sampled.calls)
            ELSE Return(CorridorResult(sampled.val), sampled.calls))

\* radius of a grid cell: int(max(lat_step, lng_step) * 111000 / 2), the
\* steps being (max - min) / grid_size degrees
CellRadius(area_bounds, grid_size) ==
    Trunc(Max(area_bounds[2][1] - area_bounds[1][1],
              area_bounds[2][2] - area_bounds[1][2]) * 111,
          2 * grid_size)

\* center of cell (i, j), in units of 1 / (2 * grid_size) of a coordinate
\* unit: min + (i + 0.5) * step
CellCenter(area_bounds, grid_size, i, j) ==
    <<2 * grid_size * area_bounds[1][1]
        + (2 * i + 1) * (area_bounds[2][1] - area_bounds[1][1]),
      2 * grid_size * area_bounds[1][2]
        + (2 * j + 1) * (area_bounds[2][2] - area_bounds[1][2])>>

\* the zones after cell (i, j) with the density found there
AddZone(zones, center, i, j, density) ==
    IF density.density_score > 6000
    THEN Append(zones, [center |-> center,
                        density_score |-> density.density_score,
                        grid_position |-> <<i, j>>])
    ELSE zones

\* the inner loop "for j in range(grid_size)" of row i, from column j on
RECURSIVE RowLoop(_, _, _, _, _, _, _)
RowLoop(field, area_bounds, grid_size, i, j, zones, cs) ==
    IF j >= grid_size THEN Return(zones, cs)
    ELSE Try(calculate_area_density(field,
                                    CellCenter(area_bounds, grid_size, i, j),
                                    CellRadius(area_bounds, grid_size), cs),
             LAMBDA density :
                 RowLoop(field, area_bounds, grid_size, i, j + 1,
                         AddZone(zones, CellCenter(area_bounds, grid_size, i, j),
                                 i, j, density.val),
                         density.calls))

\* the outer loop "for i in range(grid_size)", from row i on
RECURSIVE ZoneLoop(_, _, _, _, _, _)
ZoneLoop(field, area_bounds, grid_size, i, zones, cs) ==
    IF i >= grid_size THEN Return(zones, cs)
    ELSE Try(RowLoop(field, area_bounds, grid_size, i, 0, zones, cs),
             LAMBDA row :
                 ZoneLoop(field, area_bounds, grid_size, i + 1, row.val, row.calls))

ZoneScores(zones) == [k \in 1..Len(zones) |-> zones[k].density_score]

\* identify_high_demand_zones(area_bounds, grid_size)
identify_high_demand_zones(field, area_bounds, grid_size, cs) ==
    Try(ZoneLoop(field, area_bounds, grid_size, 0, <<>>, cs),
        LAMBDA scanned :
            Return(SortDesc(scanned.val, ZoneScores(scanned.val)), scanned.calls))

\* _classify_connectivity(score)
classify_connectivity(score) ==
    IF score < 30 THEN "poor"
    ELSE IF score < 60 THEN "fair"
    ELSE IF score < 80 THEN "good"
    ELSE "excellent"

TransitTypes == <<"bus_station", "subway_station", "light_rail_station">>

\* the loop of calculate_connectivity_score from the t-th transit type on;
\* answers[t] is the provider's answer for that type
RECURSIVE StationLoop(_, _, _, _)
StationLoop(answers, t, nearby_stations, cs) ==
    IF t > Len(TransitTypes) THEN Return(nearby_stations, cs)
    ELSE Try(call_get_nearby_transit_stations(ConnectivityStationKwargs,
                                              answers[t], cs),
             LAMBDA stations :
                 StationLoop(answers, t + 1, nearby_stations \o stations.val,
                             stations.calls))

\* the result of calculate_connectivity_score
ConnectivityResult(nearby_stations) ==
    [connectivity_score |-> Min(100, Len(nearby_stations) * 10),
     total_stations |-> Len(nearby_stations),
     stations |-> SubSeq(nearby_stations, 1, Min(5, Len(nearby_stations))),
     connectivity_level |->
        classify_connectivity(Min(100, Len(nearby_stations) * 10))]

\* calculate_connectivity_score(location, transit_types=None)
calculate_connectivity_score(answers, cs) ==
    Try(StationLoop(answers, 1, <<>>, cs),
        LAMBDA searched : Return(ConnectivityResult(searched.val), searched.calls))

----------------------------------------------------------------------------
(* RouteOptimizer *)

\* self.weights, in percent
WeightTime == 35

WeightTraffic == 25

WeightDensity == 20

WeightConnectivity == 20

\* default corridor_width of analyze_route_corridor, in meters
CorridorWidth == 500

\* positional arguments _evaluate_route passes to get_traffic_conditions
EvaluateTrafficArgs == 3

\* _calculate_traffic_score(traffic_info)
calculate_traffic_score(traffic_info) ==
    CASE traffic_info.traffic_level = "low" -> 95
      [] traffic_info.traffic_level = "moderate" -> 70
      [] traffic_info.traffic_level = "heavy" -> 40
      [] traffic_info.traffic_level = "severe" -> 15
      [] OTHER -> 50

\* _extract_waypoints(route): the loop over the steps adds nothing
extract_waypoints(route) == <<>>

\* the scores of _evaluate_route without the floor of the time score at 0
RouteScore_time_not_floored(duration, traffic_info, density_analysis, origin_conn, dest_conn) ==
    LET time60 == 6000 - duration
        traffic_score == calculate_traffic_score(traffic_info)
        density_score == density_analysis.average_density
        connectivity2 == origin_conn.connectivity_score
                         + dest_conn.connectivity_score
    IN  [total_score |->
            RoundHalfEven(WeightTime * 5 * time60
                          + WeightTraffic * 300 * traffic_score
                          + WeightDensity * 3 * density_score
                          + WeightConnectivity * 150 * connectivity2,
                          300),
         time_score |-> RoundHalfEven(100 * time60, 60),
         traffic_score |-> 100 * traffic_score,
         density_score |-> density_score,
         connectivity_score |-> 50 * connectivity2,
         traffic_level |-> traffic_info.traffic_level]

\* the scores _evaluate_route returns. time60 / 60 is the time score
\* max(0, 100 - duration / 60), connectivity2 / 2 the connectivity score, and
\* the weighted total is taken over the common denominator 300.
RouteScore(duration, traffic_info, density_analysis, origin_conn, dest_conn) ==
    LET time60 == Max(0, 6000 - duration)
        traffic_score == calculate_traffic_score(traffic_info)
        density_score == density_analysis.average_density
        connectivity2 == origin_conn.connectivity_score
                         + dest_conn.connectivity_score
    IN  [total_score |->
            RoundHalfEven(WeightTime * 5 * time60
                          + WeightTraffic * 300 * traffic_score
                          + WeightDensity * 3 * density_score
                          + WeightConnectivity * 150 * connectivity2,
                          300),
         time_score |-> RoundHalfEven(100 * time60, 60),
         traffic_score |-> 100 * traffic_score,
         density_score |-> density_score,
         connectivity_score |-> 50 * connectivity2,
         traffic_level |-> traffic_info.traffic_level]

\* _evaluate_route(route, origin, destination, departure_time)
evaluate_route(route, prov, cs) ==
    Try(call_get_traffic_conditions(EvaluateTrafficArgs, prov.traffic, cs),
        LAMBDA traffic_info :
    Try(analyze_route_corridor(prov.poi, extract_waypoints(route), CorridorWidth,
                               traffic_info.calls),
        LAMBDA density_analysis :
    Try(calculate_connectivity_score(prov.places, density_analysis.calls),
        LAMBDA origin_connectivity :
    Try(calculate_connectivity_score(prov.places, origin_connectivity.calls),
        LAMBDA dest_connectivity :
            Return(RouteScore(route.total_duration_seconds, traffic_info.val,
                              density_analysis.val, origin_connectivity.val,
                              dest_connectivity.val),
                   dest_connectivity.calls)))))

\* _generate_recommendation(score, route): the tier of the message
generate_recommendation(score) ==
    IF score.total_score >= 8000 THEN "excellent"
    ELSE IF score.total_score >= 6000 THEN "good"
    ELSE IF score.total_score >= 4000 THEN "acceptable"
    ELSE "less_optimal"

\* the route with its optimization_score and recommendation
Annotated(route, score) ==
    [summary |-> route.summary,
     total_duration_seconds |-> route.total_duration_seconds,
     steps |-> route.steps,
     optimization_score |-> score,
     recommendation |-> generate_recommendation(score)]

\* the loop of find_optimal_routes over the routes from the r-th on
RECURSIVE EvaluateLoop(_, _, _, _, _)
EvaluateLoop(routes, prov, r, evaluated_routes, cs) ==
    IF r > Len(routes) THEN Return(evaluated_routes, cs)
    ELSE Try(evaluate_route(routes[r], prov, cs),
             LAMBDA score :
                 EvaluateLoop(routes, prov, r + 1,
                              Append(evaluated_routes, Annotated(routes[r], score.val)),
                              score.calls))

TotalScores(routes) ==
    [k \in 1..Len(routes) |-> routes[k].optimization_score.total_score]

\* find_optimal_routes without "if not routes: return []", an empty search
\* being reported as an error
find_optimal_routes_raising(prov, cs) ==
    Try(get_directions_transit(prov.transit, cs),
        LAMBDA routes :
            IF Len(routes.val) = 0 THEN Raise("ValueError", routes.calls)
            ELSE Try(EvaluateLoop(routes.val, prov, 1, <<>>, routes.calls),
                     LAMBDA evaluated :
                         Return(SortDesc(evaluated.val, TotalScores(evaluated.val)),
                                evaluated.calls)))

\* find_optimal_routes(origin, destination, departure_time, preferences)
find_optimal_routes(prov, cs) ==
    Try(get_directions_transit(prov.transit, cs),
        LAMBDA routes :
            IF Len(routes.val) = 0 THEN Return(<<>>, routes.calls)
            ELSE Try(EvaluateLoop(routes.val, prov, 1, <<>>, routes.calls),
                     LAMBDA evaluated :
                         Return(SortDesc(evaluated.val, TotalScores(evaluated.val)),
                                evaluated.calls)))

\* grid_size suggest_new_route passes to identify_high_demand_zones
SuggestGridSize == 8

\* suggest_new_route with the priority decided by len(high_demand) >= 10
Suggestion_priority_from_ten(high_demand, vehicle_type) ==
    IF Len(high_demand) < 2
    THEN [status |-> "insufficient_data", message |-> "Pas assez de zones"]
    ELSE [status |-> "success",
          vehicle_type |-> vehicle_type,
          suggested_stops |-> SubSeq(high_demand, 1, Min(5, Len(high_demand))),
          expected_coverage |->
             [num |-> SumSeq(ZoneScores(SubSeq(high_demand, 1,
                                               Min(5, Len(high_demand))))),
              den |-> Min(5, Len(high_demand))],
          priority |-> IF Len(high_demand) >= 10 THEN "high" ELSE "medium"]

\* what suggest_new_route returns for the zones high_demand; expected_coverage
\* is the rational num / den
Suggestion(high_demand, vehicle_type) ==
    IF Len(high_demand) < 2
    THEN [status |-> "insufficient_data", message |-> "Pas assez de zones"]
    ELSE [status |-> "success",
          vehicle_type |-> vehicle_type,
          suggested_stops |-> SubSeq(high_demand, 1, Min(5, Len(high_demand))),
          expected_coverage |->
             [num |-> SumSeq(ZoneScores(SubSeq(high_demand, 1,
                                               Min(5, Len(high_demand))))),
              den |-> Min(5, Len(high_demand))],
          priority |-> IF Len(high_demand) > 10 THEN "high" ELSE "medium"]

\* suggest_new_route(area_bounds, vehicle_type); the outcome also shows the
\* local high_demand
suggest_new_route(field, area_bounds, vehicle_type, cs) ==
    Try(identify_high_demand_zones(field, area_bounds, SuggestGridSize, cs),
        LAMBDA high_demand :
            [exc |-> "none",
             val |-> Suggestion(high_demand.val, vehicle_type),
             calls |-> high_demand.calls,
             high_demand |-> high_demand.val])

\* compare_routes with the delta taken against the mean of all the routes
compare_routes_mean_of_all(routes) ==
    IF Len(routes) = 0 THEN [error |-> "No routes to compare"]
    ELSE [best_route_index |-> 0,
          best_route_summary |-> routes[1].summary,
          score_range |->
             [min |-> MinSeq(TotalScores(routes)),
              max |-> MaxSeq(TotalScores(routes)),
              average |-> [num |-> SumSeq(TotalScores(routes)),
                           den |-> Len(routes)]],
          delta |->
             IF Len(routes) > 1
             THEN [num |-> Len(routes) * TotalScores(routes)[1]
                           - SumSeq(TotalScores(routes)),
                   den |-> Len(routes)]
             ELSE [num |-> 0, den |-> 1]]

\* compare_routes(routes); average and the delta of the recommendation text
\* are rationals num / den
compare_routes(routes) ==
    IF Len(routes) = 0 THEN [error |-> "No routes to compare"]
    ELSE [best_route_index |-> 0,
          best_route_summary |-> routes[1].summary,
          score_range |->
             [min |-> MinSeq(TotalScores(routes)),
              max |-> MaxSeq(TotalScores(routes)),
              average |-> [num |-> SumSeq(TotalScores(routes)),
                           den |-> Len(routes)]],
          delta |->
             IF Len(routes) > 1
             THEN [num |-> (Len(routes) - 1) * TotalScores(routes)[1]
                           - SumSeq(Tail(TotalScores(routes))),
                   den |-> Len(routes) - 1]
             ELSE [num |-> 0, den |-> 1]]

----------------------------------------------------------------------------
(* The endpoints of app/main.py *)

\* try: ... except Exception as e: raise HTTPException(status_code=500, ...).
\* HTTPException is an Exception, so one raised inside the try block is
\* caught and answered 500 like any other.
Respond(tried) ==
    IF tried.exc = "none"
    THEN [status |-> 200, body |-> tried.val, calls |-> tried.calls]
    ELSE [status |-> 500, body |-> [detail |-> tried.exc], calls |-> tried.calls]

\* POST /api/routes/optimize
api_optimize_routes(req, prov) ==
    Respond(Try(find_optimal_routes(prov, <<>>),
                LAMBDA routes :
                    IF Len(routes.val) = 0
                    THEN Raise("HTTPException(404)", routes.calls)
                    ELSE Return([status |-> "success",
                                 query |-> [origin |-> req.origin,
                                            destination |-> req.destination],
                                 routes_found |-> Len(routes.val),
                                 routes |-> routes.val,
                                 comparison |-> compare_routes(routes.val)],
                                routes.calls)))

\* POST /api/density/analyze
api_analyze_density(req, prov) ==
    Respond(Try(calculate_area_density(prov.poi, to_tuple(req.center), req.radius,
                                       <<>>),
                LAMBDA density :
            Try(calculate_connectivity_score(prov.places, density.calls),
                LAMBDA connectivity :
                    Return([status |-> "success",
                            location |-> req.center,
                            radius_meters |-> req.radius,
                            density |-> density.val,
                            connectivity |-> connectivity.val],
                           connectivity.calls))))

\* GET /api/traffic/conditions: origin and destination are passed by keyword;
\* the report is a non-empty dict, so "if not traffic" never holds
api_get_traffic_conditions(req, prov) ==
    Respond(Try(call_get_traffic_conditions(2, prov.traffic, <<>>),
                LAMBDA traffic :
                    Return([status |-> "success",
                            origin |-> req.origin,
                            destination |-> req.destination,
                            traffic |-> traffic.val],
                           traffic.calls)))

\* ((sw lat, sw lng), (ne lat, ne lng))
AreaBounds(req) == <<to_tuple(req.southwest), to_tuple(req.northeast)>>

\* POST /api/routes/suggest
api_suggest_new_route(req, prov) ==
    Respond(Try(suggest_new_route(prov.poi, AreaBounds(req), req.vehicle_type, <<>>),
                LAMBDA suggestion :
                    Return([status |-> "success",
                            area_analyzed |-> [southwest |-> req.southwest,
                                               northeast |-> req.northeast],
                            suggestion |-> suggestion.val],
                           suggestion.calls)))

\* GET /api/stations/nearby
api_get_nearby_stations(req, prov) ==
    Respond(Try(call_get_nearby_transit_stations(EndpointStationKwargs,
                                                 prov.places[1], <<>>),
                LAMBDA stations :
                    Return([status |-> "success",
                            location |-> req.location,
                            radius_meters |-> req.radius,
                            stations_found |-> Len(stations.val),
                            stations |-> stations.val],
                           stations.calls)))

\* DensityRequest: center is a required Location, radius has ge=100, le=5000
ValidDensityRequest(r) ==
    ValidLocation(r.center) /\ r.radius >= 100 /\ r.radius <= 5000

\* the four query parameters of /api/traffic/conditions are required floats
ValidTrafficQuery(q) == q.origin.present /\ q.destination.present

\* NewRouteRequest: area_bounds holds two required Locations
ValidNewRouteRequest(r) == ValidLocation(r.southwest) /\ ValidLocation(r.northeast)

\* lat and lng are required floats, radius has ge=100, le=2000
ValidStationsQuery(q) == q.location.present /\ q.radius >= 100 /\ q.radius <= 2000

----------------------------------------------------------------------------
(* The state machine: one action per endpoint *)

NoOut ==
    [transit |-> NotCalled, found |-> NotCalled, traffic |-> NotCalled,
     stations |-> NotCalled, density |-> NotCalled, suggestion |-> NotCalled,
     zones |-> NotCalled, corridor |-> NotCalled, connectivity |-> NotCalled,
     score |-> NotCalled, comparison |-> NotCalled]

\* FastAPI validates the request before the handler runs and answers 422;
\* h is the handler's response to a valid request and o the outcomes of the
\* service functions it called
Answer(valid, prov, h, o) ==
    IF valid
    THEN [provider |-> prov, calls |-> h.calls, out |-> o,
          status |-> h.status, body |-> h.body]
    ELSE [provider |-> NoProvider, calls |-> <<>>, out |-> NoOut,
          status |-> 422, body |-> [detail |-> "validation"]]

Deliver(ep, req, r) ==
    /\ endpoint' = ep
    /\ request' = req
    /\ provider' = r.provider
    /\ calls' = r.calls
    /\ out' = r.out
    /\ status' = r.status
    /\ body' = r.body

Init ==
    /\ endpoint = "none"
    /\ request = [none |-> TRUE]
    /\ provider = NoProvider
    /\ calls = <<>>
    /\ out = NoOut
    /\ status = 0
    /\ body = [detail |-> "none"]

RouteRequest(origin, destination) == [origin |-> origin, destination |-> destination]

\* what the provider answers to a traffic query of the optimize endpoint
OptimizeTrafficAnswers ==
    {[status |-> 200, hasRoutes |-> TRUE,
      routes |-> <<[seconds |-> 1000, withTraffic |-> 1150]>>],
     [status |-> 500, hasRoutes |-> FALSE, routes |-> <<>>]}

\* the provider behind the optimize endpoint: its POI data and its station
\* searches always succeed
OptimizeProvider(a, t) ==
    [transit |-> a, traffic |-> t, places |-> ConnectivityAnswers, poi |-> NoField]

OptimizeOut(prov) ==
    [NoOut EXCEPT !.transit = get_directions_transit(prov.transit, <<>>),
                  !.found = find_optimal_routes(prov, <<>>)]

OptimizeRoutes ==
    /\ endpoint = "none"
    /\ \E origin \in LocationInputs, destination \in LocationInputs,
          a \in TransitAnswers, t \in OptimizeTrafficAnswers :
           Deliver("POST /api/routes/optimize", RouteRequest(origin, destination),
                   Answer(ValidRouteRequest(RouteRequest(origin, destination)),
                          OptimizeProvider(a, t),
                          api_optimize_routes(RouteRequest(origin, destination),
                                              OptimizeProvider(a, t)),
                          OptimizeOut(OptimizeProvider(a, t))))

RadiusInputs == {99, 100, 1000, 5000, 5001}

DensityRequest(center, radius) == [center |-> center, radius |-> radius]

DensityProvider(f) == [NoProvider EXCEPT !.poi = f, !.places = ConnectivityAnswers]

DensityOut(req, prov) ==
    [NoOut EXCEPT !.density = calculate_area_density(prov.poi, to_tuple(req.center),
                                                     req.radius, <<>>)]

AnalyzeDensity ==
    /\ endpoint = "none"
    /\ \E center \in LocationInputs, radius \in RadiusInputs, f \in DensityFields :
           Deliver("POST /api/density/analyze", DensityRequest(center, radius),
                   Answer(ValidDensityRequest(DensityRequest(center, radius)),
                          DensityProvider(f),
                          api_analyze_density(DensityRequest(center, radius),
                                              DensityProvider(f)),
                          DensityOut(DensityRequest(center, radius),
                                     DensityProvider(f))))

TrafficProvider(a) == [NoProvider EXCEPT !.traffic = a]

TrafficOut(prov) ==
    [NoOut EXCEPT !.traffic = call_get_traffic_conditions(2, prov.traffic, <<>>)]

GetTrafficConditions ==
    /\ endpoint = "none"
    /\ \E origin \in LocationInputs, destination \in LocationInputs,
          a \in TrafficAnswers :
           Deliver("GET /api/traffic/conditions", RouteRequest(origin, destination),
                   Answer(ValidTrafficQuery(RouteRequest(origin, destination)),
                          TrafficProvider(a),
                          api_get_traffic_conditions(
                              RouteRequest(origin, destination), TrafficProvider(a)),
                          TrafficOut(TrafficProvider(a))))

\* corners of the area of the suggest endpoint: a 0.16 x 0.16 degree square,
\* and corners that are equal, inverted, out of range or missing
SouthWestInputs == {GivenLocation(33000, -7000), GivenLocation(-90001, -7000)}

NorthEastInputs ==
    {GivenLocation(33160, -6840), GivenLocation(33000, -7000),
     GivenLocation(32840, -7160), MissingLocation}

NewRouteRequest(sw, ne) == [southwest |-> sw, northeast |-> ne, vehicle_type |-> "bus"]

PoiProvider(f) == [NoProvider EXCEPT !.poi = f]

SuggestOut(req, prov) ==
    [NoOut EXCEPT !.suggestion = suggest_new_route(prov.poi, AreaBounds(req),
                                                   req.vehicle_type, <<>>)]

SuggestNewRoute ==
    /\ endpoint = "none"
    /\ \E sw \in SouthWestInputs, ne \in NorthEastInputs, f \in SuggestFields :
           Deliver("POST /api/routes/suggest", NewRouteRequest(sw, ne),
                   Answer(ValidNewRouteRequest(NewRouteRequest(sw, ne)),
                          PoiProvider(f),
                          api_suggest_new_route(NewRouteRequest(sw, ne), PoiProvider(f)),
                          SuggestOut(NewRouteRequest(sw, ne), PoiProvider(f))))

StationRadiusInputs == {99, 100, 500, 2000, 2001}

StationsQuery(location, radius, station_type) ==
    [location |-> location, radius |-> radius, station_type |-> station_type]

PlacesProvider(a) == [NoProvider EXCEPT !.places = <<a>>]

StationsOut(prov) ==
    [NoOut EXCEPT !.stations = call_get_nearby_transit_stations(
                                   EndpointStationKwargs, prov.places[1], <<>>)]

GetNearbyStations ==
    /\ endpoint = "none"
    /\ \E location \in LocationInputs, radius \in StationRadiusInputs,
          station_type \in {"bus_station", "subway_station"}, a \in PlaceAnswers :
           Deliver("GET /api/stations/nearby",
                   StationsQuery(location, radius, station_type),
                   Answer(ValidStationsQuery(
                              StationsQuery(location, radius, station_type)),
                          PlacesProvider(a),
                          api_get_nearby_stations(
                              StationsQuery(location, radius, station_type),
                              PlacesProvider(a)),
                          StationsOut(PlacesProvider(a))))

\* the response is returned and everything held for the request discarded
Discard ==
    /\ endpoint # "none"
    /\ endpoint' = "none"
    /\ request' = [none |-> TRUE]
    /\ provider' = NoProvider
    /\ calls' = <<>>
    /\ out' = NoOut
    /\ status' = 0
    /\ body' = [detail |-> "none"]

Next ==
    \/ OptimizeRoutes
    \/ AnalyzeDensity
    \/ GetTrafficConditions
    \/ SuggestNewRoute
    \/ GetNearbyStations
    \/ Discard

Spec == Init /\ [][Next]_vars

----------------------------------------------------------------------------
(* The services called directly                                            *)
(*                                                                         *)
(* A second state machine, in which a service function is called on its    *)
(* own with arguments of its parameter types, as a caller or a unit test   *)
(* may. endpoint names the function, request holds its arguments, out its  *)
(* outcome.                                                                *)

\* the state after a direct call whose outcome o is recorded as out[name]
Called(prov, name, o) ==
    [provider |-> prov, calls |-> o.calls, out |-> [NoOut EXCEPT ![name] = o],
     status |-> 0, body |-> [detail |-> "none"]]

\* grid sizes: the default 10, the 8 of suggest_new_route, and small ones
GridSizes == {1, 2, 3, 8, 10}

\* corners of the area: a square, a rectangle, equal corners and inverted ones
ZoneSouthWest == <<33000, -7000>>

ZoneNorthEasts ==
    {<<33160, -6840>>, <<33160, -6920>>, <<33000, -7000>>, <<32840, -7160>>}

\* POI data over the square area, block by block of a grid of g cells a side
\* (cell centers are in units of 1 / (2 * g), see CellCenter)
ZoneField(g, hot, hi, lo) ==
    [origin |-> <<2 * g * ZoneSouthWest[1], 2 * g * ZoneSouthWest[2]>>,
     pitch |-> 320, width |-> g, hot |-> hot, hi |-> hi, spread |-> 4,
     lo |-> lo, failAt |-> 0]

ZoneRequest(ne, g) ==
    [area_bounds |-> <<ZoneSouthWest, ne>>, grid_size |-> g]

CallIdentifyHighDemandZones ==
    /\ endpoint = "none"
    /\ \E ne \in ZoneNorthEasts, g \in GridSizes, hot \in {0, 1, 3, 12},
          hi \in {7, 60}, lo \in {0, 5} :
           Deliver("identify_high_demand_zones", ZoneRequest(ne, g),
                   Called(PoiProvider(ZoneField(g, hot, hi, lo)), "zones",
                          identify_high_demand_zones(ZoneField(g, hot, hi, lo),
                                                     <<ZoneSouthWest, ne>>, g, <<>>)))

\* scored routes as find_optimal_routes builds them, in any order
ScoredRoutes ==
    [summary : {"L1", "T2"},
     optimization_score : [total_score : {2000, 5550, 7875, 10000}]]

CallCompareRoutes ==
    /\ endpoint = "none"
    /\ \E routes \in SeqsUpTo(ScoredRoutes, MaxScored) :
           Deliver("compare_routes", [routes |-> routes],
                   Called(NoProvider, "comparison",
                          Return(compare_routes(routes), <<>>)))

\* what the services answer to _evaluate_route: a duration in seconds, a
\* traffic level, an average corridor density and two connectivity scores
ScoreInputs ==
    [duration : {0, 60, 600, 2430, 5999, 6000, 7200},
     traffic_level : {"low", "moderate", "heavy", "severe", "unknown"},
     average_density : {0, 1234, 5000, 9999, 10000},
     origin_connectivity : {0, 50, 100},
     dest_connectivity : {0, 50, 70, 100}]

\* the scoring of _evaluate_route on the answers of the services
CallEvaluateRoute ==
    /\ endpoint = "none"
    /\ \E i \in ScoreInputs :
           Deliver("_evaluate_route", i,
                   Called(NoProvider, "score",
                          Return(RouteScore(i.duration,
                                            [traffic_level |-> i.traffic_level],
                                            [average_density |-> i.average_density],
                                            [connectivity_score |-> i.origin_connectivity],
                                            [connectivity_score |-> i.dest_connectivity]),
                                 <<>>)))

\* the center of the area and the POI data around it: total POIs in the
\* block that holds the center
AreaCenter == <<33972, -6850>>

AreaField(total, failAt) ==
    [origin |-> <<33900, -6900>>, pitch |-> 200, width |-> 1, hot |-> 1,
     hi |-> total, spread |-> 1, lo |-> 0, failAt |-> failAt]

AreaTotals == {0, 1, 2, 4, 8, 9, 12, 24, 30, 37, 50, 99}

AreaRadii == {-1110, 0, 1, 99, 100, 500, 1000, 1001, 4000, 4001, 5000}

CallCalculateAreaDensity ==
    /\ endpoint = "none"
    /\ \E total \in AreaTotals, radius \in AreaRadii, failAt \in {0, 5} :
           Deliver("calculate_area_density",
                   [center |-> AreaCenter, radius |-> radius],
                   Called(PoiProvider(AreaField(total, failAt)), "density",
                          calculate_area_density(AreaField(total, failAt),
                                                 AreaCenter, radius, <<>>)))

\* the provider's answers to the searches for the three transit types
CallCalculateConnectivityScore ==
    /\ endpoint = "none"
    /\ \E answers \in [1..Len(TransitTypes) -> PlaceAnswers] :
           Deliver("calculate_connectivity_score", [location |-> AreaCenter],
                   Called([NoProvider EXCEPT !.places = answers], "connectivity",
                          calculate_connectivity_score(answers, <<>>)))

\* legs of a DRIVE answer around the thresholds of the traffic factor
ServiceLegs ==
    [seconds : {0, 30, 1000},
     withTraffic : {-1, 0, 33, 39, 48, 1050, 1099, 1100, 1150, 1299, 1300, 1400,
                    1599, 1600, 2000}]

ServiceTrafficAnswers ==
    {[status |-> st, hasRoutes |-> TRUE, routes |-> rs] :
        st \in {200, 500}, rs \in SeqsUpTo(ServiceLegs, 1)}
    \cup {[status |-> st, hasRoutes |-> FALSE, routes |-> <<>>] : st \in {200, 500}}

CallGetTrafficConditions ==
    /\ endpoint = "none"
    /\ \E a \in ServiceTrafficAnswers :
           Deliver("get_traffic_conditions",
                   [origin |-> AreaCenter, destination |-> AreaCenter],
                   Called(TrafficProvider(a), "traffic",
                          get_traffic_conditions(a, <<>>)))

\* waypoints in three blocks of the provider's POI data
WaypointInputs == {<<33972, -6850>>, <<33972, -6650>>, <<34172, -6850>>}

CorridorField(hot, hi, spread, lo) ==
    [origin |-> <<33900, -6900>>, pitch |-> 200, width |-> 2, hot |-> hot,
     hi |-> hi, spread |-> spread, lo |-> lo, failAt |-> 0]

\* a transit route as get_directions_transit returns it
CorridorRoutes ==
    {[summary |-> "L1", total_duration_seconds |-> 600, steps |-> <<>>]}

\* analyze_route_corridor on the waypoints _evaluate_route extracts from a
\* route (extracted), or on waypoints given by the caller
CallAnalyzeRouteCorridor ==
    /\ endpoint = "none"
    /\ \E route \in CorridorRoutes, extracted \in BOOLEAN,
          given \in SeqsUpTo(WaypointInputs, MaxWaypoints),
          corridor_width \in {CorridorWidth, 1000},
          hot \in {0, 1, 3}, hi \in {2, 30}, spread \in {1, 2}, lo \in {0, 1} :
           /\ extracted => (given = <<>> /\ corridor_width = CorridorWidth)
           /\ Deliver("analyze_route_corridor",
                      [route |-> route, extracted |-> extracted,
                       waypoints |-> IF extracted THEN extract_waypoints(route)
                                     ELSE given,
                       corridor_width |-> corridor_width],
                      Called(PoiProvider(CorridorField(hot, hi, spread, lo)),
                             "corridor",
                             analyze_route_corridor(
                                 CorridorField(hot, hi, spread, lo),
                                 IF extracted THEN extract_waypoints(route) ELSE given,
                                 corridor_width, <<>>)))

ServiceNext ==
    \/ CallIdentifyHighDemandZones
    \/ CallAnalyzeRouteCorridor
    \/ CallGetTrafficConditions
    \/ CallCalculateConnectivityScore
    \/ CallCalculateAreaDensity
    \/ CallCompareRoutes
    \/ CallEvaluateRoute
    \/ Discard

ServiceSpec == Init /\ [][ServiceNext]_vars

----------------------------------------------------------------------------
(* Properties *)

Optimize == endpoint = "POST /api/routes/optimize"

Density == endpoint = "POST /api/density/analyze"

Traffic == endpoint = "GET /api/traffic/conditions"

Suggest == endpoint = "POST /api/routes/suggest"

Stations == endpoint = "GET /api/stations/nearby"

\* the handler ran: the request passed validation
Handled == endpoint # "none" /\ status # 422

NonIncreasing(keys) == \A k \in 1..(Len(keys) - 1) : keys[k] >= keys[k + 1]

Orderings(n) == {p \in [1..n -> 1..n] : \A a, b \in 1..n : p[a] = p[b] => a = b}

\* found holds exactly the provider's routes, in some order
IsPermutationOf(found, routes) ==
    /\ Len(found) = Len(routes)
    /\ \E p \in Orderings(Len(routes)) :
           \A k \in 1..Len(routes) :
               /\ found[k].summary = routes[p[k]].summary
               /\ found[k].total_duration_seconds = routes[p[k]].seconds

\* the provider answered the transit search with success and a route list
TransitOk == provider.transit.status = 200 /\ provider.transit.hasRoutes

\* every upstream request of a route evaluation would succeed
UpstreamOk ==
    /\ provider.traffic.status = 200
    /\ provider.traffic.hasRoutes
    /\ Len(provider.traffic.routes) >= 1
    /\ provider.poi.failAt = 0
    /\ \A t \in DOMAIN provider.places :
           provider.places[t].status = 200 /\ provider.places[t].hasResults

\* C1: POST /api/routes/optimize with a schema-valid body, when the route
\* search yields no routes, answers 404 (not 500, not 200).
C1_NoRoutesAnswers404 ==
    (Optimize /\ Handled /\ out.found.exc = "none" /\ Len(out.found.val) = 0)
        => status = 404

\* C2: when the gateway returns n >= 1 transit routes and every upstream call
\* succeeds, findOptimalRoutes returns those n routes (a permutation), each
\* with a score and a recommendation, in non-increasing order of total score.
C2_RoutesRankedByScore ==
    (Optimize /\ Handled /\ TransitOk /\ Len(provider.transit.routes) >= 1
       /\ UpstreamOk)
        => /\ out.found.exc = "none"
           /\ IsPermutationOf(out.found.val, provider.transit.routes)
           /\ \A k \in DOMAIN out.found.val :
                  /\ "optimization_score" \in DOMAIN out.found.val[k]
                  /\ "recommendation" \in DOMAIN out.found.val[k]
           /\ NonIncreasing(TotalScores(out.found.val))

\* C3: when the transit search returns zero routes, findOptimalRoutes returns
\* an empty list without raising and makes no traffic, density or
\* connectivity gateway call: the transit search is its only invocation.
C3_NoRoutesNoFurtherCalls ==
    (Optimize /\ Handled /\ out.transit.exc = "none" /\ Len(out.transit.val) = 0)
        => /\ out.found.exc = "none"
           /\ out.found.val = <<>>
           /\ Len(out.found.calls) = 1
           /\ out.found.calls[1].op = "get_directions_transit"
           /\ calls = out.found.calls

\* a request whose transit search succeeded with an empty route list
C3_Witness ==
    /\ Optimize /\ Handled /\ TransitOk
    /\ Len(provider.transit.routes) = 0
    /\ out.found.exc = "none" /\ out.found.val = <<>>
    /\ Len(calls) = 1

\* C4: a provider failure during the transit search (non-success status, or a
\* payload with no route list) makes getTransitRoutes fail with the upstream
\* error; it is never reported as an empty list.
C4_TransitFailureRaises ==
    (Optimize /\ Handled /\ ~TransitOk) => out.transit.exc = UpstreamError

\* C5: getTrafficConditions fails with the upstream error when the provider
\* status is not success, when the response has no route list, and when the
\* route list holds no route; no other kind of failure escapes.
C5_TrafficFailureIsUpstreamError ==
    (Traffic /\ Handled
       /\ (\/ provider.traffic.status # 200
           \/ ~provider.traffic.hasRoutes
           \/ Len(provider.traffic.routes) = 0))
        => out.traffic.exc = UpstreamError

\* a gateway invocation that failed: it raised, or the provider did not
\* answer it with success
Failed(c) == c.raised \/ ~c.providerOk

\* C6: every gateway invocation sends exactly one outbound request; once an
\* invocation fails it is the last one of the request, and the request ends
\* in an error response, never in a 200.
C6_OneRequestAndAbortOnFailure ==
    /\ \A k \in DOMAIN calls : calls[k].sent = 1
    /\ \A k \in DOMAIN calls :
           Failed(calls[k]) => (k = Len(calls) /\ status >= 400)

\* a traffic query whose provider request failed after nothing else, answered
\* with an error
C6_Witness ==
    /\ Traffic /\ Handled
    /\ provider.traffic.status # 200
    /\ Len(calls) = 1 /\ calls[1].raised /\ calls[1].sent = 1
    /\ status = 500

\* the request violates the schema or a range bound: a coordinate missing or
\* out of range, or a radius outside the endpoint's interval
ViolatesSchema ==
    \/ (Optimize \/ Traffic)
         /\ (~ValidLocation(request.origin) \/ ~ValidLocation(request.destination))
    \/ Density
         /\ (\/ ~ValidLocation(request.center)
             \/ request.radius < 100 \/ request.radius > 5000)
    \/ Suggest
         /\ (~ValidLocation(request.southwest) \/ ~ValidLocation(request.northeast))
    \/ Stations
         /\ (\/ ~ValidLocation(request.location)
             \/ request.radius < 100 \/ request.radius > 2000)

\* C7: a request whose body or query violates the schema or a range bound is
\* answered 422 and no gateway call is issued for it.
C7_InvalidRequestAnswers422 ==
    ViolatesSchema => (status = 422 /\ calls = <<>>)

\* C8: GET /api/stations/nearby with valid lat, lng and radius in [100, 2000],
\* when the provider answers successfully, returns 200 with one normalized
\* station per provider result and stations_found equal to their number.
C8_StationsListed ==
    (Stations /\ ValidLocation(request.location)
       /\ request.radius >= 100 /\ request.radius <= 2000
       /\ provider.places[1].status = 200 /\ provider.places[1].hasResults)
        => /\ status = 200
           /\ Len(body.stations) = Len(provider.places[1].results)
           /\ \A k \in DOMAIN body.stations :
                  body.stations[k].name = provider.places[1].results[k].name
           /\ body.stations_found = Len(body.stations)

\* C9: POST /api/routes/optimize with a valid body, routes found and every
\* upstream call succeeding answers 200 with the key optimized_route, a list
\* of more than one point.
C9_OptimizedRouteInResponse ==
    (Optimize /\ Handled /\ TransitOk /\ Len(provider.transit.routes) >= 1
       /\ UpstreamOk)
        => /\ status = 200
           /\ "optimized_route" \in DOMAIN body
           /\ Len(body.optimized_route) > 1

\* the cells of the 8 x 8 grid over the requested area whose density score is
\* above 60
QualifyingCells ==
    {c \in (0..7) \X (0..7) :
        DensityResult(PoiTotal(provider.poi,
                               CellCenter(AreaBounds(request), 8, c[1], c[2])),
                      CellRadius(AreaBounds(request), 8)).density_score > 6000}

\* suggest_new_route returned
Suggested == Suggest /\ Handled /\ out.suggestion.exc = "none"

\* C10: suggestNewRoute scans the bounds with grid size 8; with k qualifying
\* zones it returns insufficient_data if k < 2, and otherwise success with
\* the first min(5, k) zones in descending score order as stops, their mean
\* score as expected coverage, and priority high exactly when k > 10.
C10_SuggestNewRoute ==
    Suggested =>
        LET zones == out.suggestion.high_demand
            k == Len(zones)
            r == out.suggestion.val
        IN  /\ Len(out.suggestion.calls) = 8 * 8 * Len(PoiTypes)
            /\ {zones[n].grid_position : n \in 1..k} = QualifyingCells
            /\ k = Cardinality(QualifyingCells)
            /\ NonIncreasing(ZoneScores(zones))
            /\ k < 2 => r.status = "insufficient_data"
            /\ k >= 2 =>
                 /\ r.status = "success"
                 /\ Len(r.suggested_stops) = Min(5, k)
                 /\ \A n \in 1..Min(5, k) : r.suggested_stops[n] = zones[n]
                 /\ r.expected_coverage.den > 0
                 /\ r.expected_coverage.num * Len(r.suggested_stops)
                      = SumSeq(ZoneScores(r.suggested_stops))
                        * r.expected_coverage.den
                 /\ r.priority = (IF k > 10 THEN "high" ELSE "medium")

\* a suggestion over more than ten zones: five stops, priority high
C10_Witness ==
    /\ Suggested
    /\ Len(out.suggestion.high_demand) > 10
    /\ out.suggestion.val.status = "success"
    /\ out.suggestion.val.priority = "high"
    /\ Len(out.suggestion.val.suggested_stops) = 5

\* identify_high_demand_zones was called directly
ZonesCalled == endpoint = "identify_high_demand_zones"

\* the cells (i, j) of the grid of g cells a side over bounds whose density
\* score at the cell center is above 60
CellsAbove60(field, bounds, g) ==
    {c \in (0..(g - 1)) \X (0..(g - 1)) :
        DensityResult(PoiTotal(field, CellCenter(bounds, g, c[1], c[2])),
                      CellRadius(bounds, g)).density_score > 6000}

\* C11: for every bounds rectangle and grid size g >= 1,
\* identifyHighDemandZones returns exactly the cells whose cell-center score
\* is above 60, each once, in non-increasing order of score, each tagged with
\* its grid position and its cell center.
C11_ZonesAreCellsAbove60 ==
    ZonesCalled =>
        /\ out.zones.exc = "none"
        /\ {out.zones.val[n].grid_position : n \in DOMAIN out.zones.val}
             = CellsAbove60(provider.poi, request.area_bounds, request.grid_size)
        /\ Len(out.zones.val)
             = Cardinality(CellsAbove60(provider.poi, request.area_bounds,
                                        request.grid_size))
        /\ NonIncreasing(ZoneScores(out.zones.val))
        /\ \A n \in DOMAIN out.zones.val :
               out.zones.val[n].center
                 = CellCenter(request.area_bounds, request.grid_size,
                              out.zones.val[n].grid_position[1],
                              out.zones.val[n].grid_position[2])

\* compare_routes was called directly
Compared == endpoint = "compare_routes"

C12_EmptyWitness ==
    Compared /\ Len(request.routes) = 0 /\ "error" \in DOMAIN out.comparison.val

\* the scoring of _evaluate_route was applied
Scored == endpoint = "_evaluate_route"

Abs(x) == IF x < 0 THEN -x ELSE x

\* the value v in hundredths is num / den points rounded to two decimals
RoundedTo2(v, num, den) == 2 * Abs(den * v - 100 * num) <= den

\* C13: time score = max(0, 100 - duration in minutes) and total score =
\* 0.35 time + 0.25 traffic + 0.20 density + 0.20 connectivity, the weights
\* summing to 1 (100, 95, 50, 50 gives 78.75); with the four sub-scores in
\* [0, 100] the total is in [0, 100]. Scores are reported rounded to two
\* decimals.
C13_WeightedTotal ==
    Scored =>
        LET s == out.score.val
            \* sixtieths of a point
            time60 == IF request.duration >= 6000 THEN 0
                      ELSE 6000 - request.duration
            \* halves of a point
            connectivity2 == request.origin_connectivity + request.dest_connectivity
        IN  /\ WeightTime + WeightTraffic + WeightDensity + WeightConnectivity = 100
            /\ RoundedTo2(s.time_score, time60, 60)
            /\ RoundedTo2(s.total_score,
                          35 * 5 * time60 + 25 * 3 * s.traffic_score
                            + 20 * 3 * request.average_density
                            + 20 * 150 * connectivity2,
                          30000)
            /\ s.time_score >= 0 /\ s.time_score <= 10000
            /\ s.total_score >= 0 /\ s.total_score <= 10000
            /\ (/\ request.duration = 0 /\ request.traffic_level = "low"
                /\ request.average_density = 5000 /\ connectivity2 = 100)
                 => s.total_score = 7875

\* the example: time 100, traffic 95, density 50, connectivity 50
C13_Witness ==
    /\ Scored
    /\ out.score.val.time_score = 10000
    /\ out.score.val.traffic_score = 9500
    /\ out.score.val.density_score = 5000
    /\ out.score.val.connectivity_score = 5000
    /\ out.score.val.total_score = 7875

\* calculate_area_density was called directly
DensityCalled == endpoint = "calculate_area_density"

\* C14: for every radius > 0 and every total POI count >= 0 (the sum of the
\* nine per-category counts), calculateAreaDensity yields the score
\* min(100, count / radius * 10000) (reported to two decimals), in [0, 100],
\* never lower for one more POI and never higher for a larger radius.
C14_DensityScore ==
    (DensityCalled /\ request.radius > 0 /\ provider.poi.failAt = 0) =>
        LET d == out.density.val
            count == SumSeq([t \in 1..Len(PoiTypes) |->
                               PoiCount(PoiTotal(provider.poi, request.center), t)])
        IN  /\ out.density.exc = "none"
            /\ Len(out.density.calls) = Len(PoiTypes)
            /\ d.total_pois = count
            /\ RoundedTo2(d.density_score,
                          Min(100 * request.radius, count * 10000), request.radius)
            /\ d.density_score >= 0 /\ d.density_score <= 10000
            /\ DensityResult(count + 1, request.radius).density_score
                 >= d.density_score
            /\ DensityResult(count, request.radius + 1).density_score
                 <= d.density_score

\* a score below the cap and above 0: 37 POIs within 4001 m
C14_Witness ==
    /\ DensityCalled /\ out.density.exc = "none"
    /\ request.radius = 4001
    /\ out.density.val.total_pois = 37
    /\ out.density.val.density_score = 9248

\* the level of a reported score s (in hundredths) under the thresholds
\* 20, 40, 60, 80
LevelOfReported(s) ==
    IF s < 2000 THEN "very_low"
    ELSE IF s < 4000 THEN "low"
    ELSE IF s < 6000 THEN "moderate"
    ELSE IF s < 8000 THEN "high"
    ELSE "very_high"

\* C15: in every result of calculateAreaDensity the density level is the
\* classification of the density score reported in that result: below 20
\* very_low, below 40 low, below 60 moderate, below 80 high, else very_high.
C15_LevelOfReportedScore ==
    (DensityCalled /\ request.radius > 0 /\ out.density.exc = "none") =>
        out.density.val.density_level = LevelOfReported(out.density.val.density_score)

\* calculate_connectivity_score was called directly
ConnectivityCalled == endpoint = "calculate_connectivity_score"

\* the provider answers every station search with success and a result list
StationsOk ==
    \A t \in DOMAIN provider.places :
        provider.places[t].status = 200 /\ provider.places[t].hasResults

\* C16: calculateConnectivityScore issues one station search per transit
\* type (three by default) and, with n the number of stations found over the
\* types, returns the count n, the score min(100, 10 n), at most 5 sample
\* stations from the start of the concatenated results, and the level poor /
\* fair / good / excellent for a score below 30 / below 60 / below 80 / else.
C16_ConnectivityScore ==
    (ConnectivityCalled /\ StationsOk) =>
        LET n == SumSeq([t \in 1..Len(TransitTypes) |->
                           Len(provider.places[t].results)])
            c == out.connectivity.val
        IN  /\ out.connectivity.exc = "none"
            /\ Len(out.connectivity.calls) = Len(TransitTypes)
            /\ \A k \in DOMAIN out.connectivity.calls :
                   out.connectivity.calls[k].op = "get_nearby_transit_stations"
            /\ c.total_stations = n
            /\ c.connectivity_score = Min(100, 10 * n)
            /\ Len(c.stations) = Min(5, n)
            /\ c.connectivity_level
                 = (IF c.connectivity_score < 30 THEN "poor"
                    ELSE IF c.connectivity_score < 60 THEN "fair"
                    ELSE IF c.connectivity_score < 80 THEN "good"
                    ELSE "excellent")

\* get_traffic_conditions was called directly
TrafficCalled == endpoint = "get_traffic_conditions"

\* the level of the ratio adjusted / base under the thresholds 1.1, 1.3, 1.6
LevelOfRatio(adjusted, base) ==
    IF 10 * adjusted < 11 * base THEN "low"
    ELSE IF 10 * adjusted < 13 * base THEN "moderate"
    ELSE IF 10 * adjusted < 16 * base THEN "heavy"
    ELSE "severe"

\* C17: for every successful provider response getTrafficConditions reports
\* the ratio adjusted / base duration when the base duration is above 0 and
\* 1.0 when it is 0 (the adjusted duration being the base one when the
\* provider omits it), and the level low / moderate / heavy / severe for a
\* ratio below 1.1 / below 1.3 / below 1.6 / else (1.05 low, 1.15 moderate,
\* 1.4 heavy, 2.0 severe).
C17_TrafficRatio ==
    (TrafficCalled /\ provider.traffic.status = 200 /\ provider.traffic.hasRoutes
       /\ Len(provider.traffic.routes) >= 1) =>
        LET base == provider.traffic.routes[1].seconds
            adjusted == IF provider.traffic.routes[1].withTraffic = -1 THEN base
                        ELSE provider.traffic.routes[1].withTraffic
            t == out.traffic.val
        IN  /\ out.traffic.exc = "none"
            /\ t.duration_seconds = base
            /\ t.duration_with_traffic_seconds = adjusted
            /\ t.traffic_factor.den > 0
            /\ base > 0 => t.traffic_factor.num * base = adjusted * t.traffic_factor.den
            /\ base = 0 => t.traffic_factor.num = t.traffic_factor.den
            /\ base > 0 => t.traffic_level = LevelOfRatio(adjusted, base)
            /\ base = 0 => t.traffic_level = "low"
            /\ (base = 1000 /\ adjusted = 1050) => t.traffic_level = "low"
            /\ (base = 1000 /\ adjusted = 1150) => t.traffic_level = "moderate"
            /\ (base = 1000 /\ adjusted = 1400) => t.traffic_level = "heavy"
            /\ (base = 1000 /\ adjusted = 2000) => t.traffic_level = "severe"

\* a ratio of exactly 1.1: moderate
C17_Witness ==
    /\ TrafficCalled /\ out.traffic.exc = "none"
    /\ provider.traffic.routes[1].seconds = 1000
    /\ provider.traffic.routes[1].withTraffic = 1100
    /\ out.traffic.val.traffic_level = "moderate"

\* analyze_route_corridor was called
CorridorCalled == endpoint = "analyze_route_corridor"

\* the density score at each waypoint, in waypoint order, with the corridor
\* width as radius
WaypointScores ==
    [w \in 1..Len(request.waypoints) |->
        DensityResult(PoiTotal(provider.poi, request.waypoints[w]),
                      request.corridor_width).density_score]

\* the integer v is num / den rounded to the nearest
Rounded(v, num, den) == 2 * Abs(den * v - num) <= den

\* the statistics of the corridor analysis over the samples xs (hundredths
\* of a point; the variance of the points is VarNum / (10000 n^2))
CorridorStatistics(c, xs) ==
    /\ c.density_samples = xs
    /\ RoundedTo2(c.average_density, SumSeq(xs), 100 * Len(xs))
    /\ \A k \in 1..Len(xs) : c.max_density >= xs[k] /\ c.min_density <= xs[k]
    /\ \E k \in 1..Len(xs) : c.max_density = xs[k]
    /\ \E k \in 1..Len(xs) : c.min_density = xs[k]
    /\ Rounded(c.density_variance, VarNum(xs), 100 * Len(xs) * Len(xs))
    /\ c.uniformity = (IF VarNum(xs) < 100 * 10000 * Len(xs) * Len(xs)
                       THEN "uniform" ELSE "variable")

\* C18: for every route evaluated the density score is the average corridor
\* density over the waypoints extracted from the route, and the corridor
\* analysis (area density at each waypoint in order with corridorWidth as
\* radius; mean, max, min, population variance, uniform iff variance < 100)
\* completes without error.
C18_CorridorAnalysisCompletes ==
    (CorridorCalled /\ request.extracted) =>
        /\ out.corridor.exc = "none"
        /\ CorridorStatistics(out.corridor.val, WaypointScores)

\* C19: for every bounds rectangle accepted by request validation (equal,
\* near-equal or inverted corners included) every area-density computation
\* started by identifyHighDemandZones gets a radius above 0, so the density
\* formula never divides by zero or by a negative radius.
C19_CellRadiusPositive ==
    (Suggest /\ Handled) =>
        /\ CellRadius(AreaBounds(request), SuggestGridSize) > 0
        /\ out.suggestion.exc # "ZeroDivisionError"

\* C20: for every non-empty list of scored routes passed to compareRoutes, in
\* any order, the route reported as best (index and summary) has a total
\* score equal to the reported maximum, and the reported delta between the
\* best route and the mean of the others is never negative.
C20_BestRouteHasMaximum ==
    (Compared /\ Len(request.routes) >= 1) =>
        LET c == out.comparison.val
            best == request.routes[c.best_route_index + 1]
        IN  /\ best.optimization_score.total_score = c.score_range.max
            /\ c.best_route_summary = best.summary
            /\ c.delta.den > 0
            /\ c.delta.num >= 0

====
